---------------------------- MODULE Spec2Model ----------------------------
(***************************************************************************)
(* A model of netlify/edge-functions/proxy-handler.ts: the allow-listed    *)
(* rewriting reverse proxy.  Strings of the program are TLA+ strings; the  *)
(* string and URL primitives of the platform (startsWith, substring,       *)
(* lastIndexOf, new URL, decodeURIComponent, encodeURIComponent, global    *)
(* regular-expression replace) are operators that compute what the         *)
(* primitive computes on the inputs the model draws.                       *)
(***************************************************************************)
EXTENDS Integers, Sequences, FiniteSets, TLC

VARIABLES
  pc,        \* position of the handler: "idle", "fetch", "text", "done"
  request,   \* the inbound request being handled
  ctx,       \* ProxyRequestContext: route kind, matchedPrefix, targetUrl
  visited,   \* components the handler has entered for this request
  fetched,   \* the outbound request handed to fetch(), or NoFetch
  upstream,  \* the upstream response fetch() resolved with, or NoUpstream
  response,  \* what the handler returned (or threw), or NoResponse
  expect,    \* for a followed redirect: the URL the redirect resolved to
  table,     \* route-table resolver: the configured prefixes
  inPath,    \* route-table resolver: the inbound path
  scan,      \* route-table resolver: the sorted, reversed prefix list
  matched,   \* route-table resolver: the selected prefix
  doc,       \* rewrite pipeline: the upstream HTML document
  out1,      \* rewrite pipeline: the pipeline's output
  out2       \* rewrite pipeline: the pipeline applied to its own output

vars == <<pc, request, ctx, visited, fetched, upstream, response, expect,
          table, inPath, scan, matched, doc, out1, out2>>

-----------------------------------------------------------------------------
(* String primitives (1-based here, 0-based in the source).                *)

Sub(s, a, b) == IF a > b \/ a < 1 \/ b > Len(s) THEN "" ELSE SubSeq(s, a, b)

CharAt(s, i) == Sub(s, i, i)

StartsWith(s, p) == Len(p) <= Len(s) /\ Sub(s, 1, Len(p)) = p

EndsWith(s, p) == Len(p) <= Len(s) /\ Sub(s, Len(s) - Len(p) + 1, Len(s)) = p

\* s.substring(k), k counted from 0
Substring(s, k) == Sub(s, k + 1, Len(s))

\* does t occur in s at (1-based) position i
OccursAt(s, t, i) == i >= 1 /\ i + Len(t) - 1 <= Len(s) /\ Sub(s, i, i + Len(t) - 1) = t

Includes(s, t) == t = "" \/ \E i \in 1..Len(s) : OccursAt(s, t, i)

Min(S) == CHOOSE x \in S : \A y \in S : x <= y

Max(S) == CHOOSE x \in S : \A y \in S : x >= y

MinOrZero(S) == IF S = {} THEN 0 ELSE Min(S)

MaxOrZero(S) == IF S = {} THEN 0 ELSE Max(S)

\* first 1-based position >= from at which t occurs in s, 0 when none
IndexFrom(s, t, from) == MinOrZero({i \in from..Len(s) : OccursAt(s, t, i)})

\* s.lastIndexOf(t) + 1: last 1-based position of t in s, 0 when none
LastIndexOf(s, t) == MaxOrZero({i \in 1..Len(s) : OccursAt(s, t, i)})

\* first 1-based position >= from whose character is in the set cs, 0 when none
FirstOf(s, cs, from) == MinOrZero({i \in from..Len(s) : CharAt(s, i) \in cs})

UpperCase == "ABCDEFGHIJKLMNOPQRSTUVWXYZ"

LowerCase == "abcdefghijklmnopqrstuvwxyz"

UpperSet == {CharAt(UpperCase, i) : i \in 1..Len(UpperCase)}

LowerTable == [c \in UpperSet |-> CharAt(LowerCase, IndexFrom(UpperCase, c, 1))]

LowerChar(c) == IF c \in UpperSet THEN LowerTable[c] ELSE c

RECURSIVE ToLower(_)
ToLower(s) == IF s = "" THEN "" ELSE LowerChar(CharAt(s, 1)) \o ToLower(Substring(s, 1))

UpperTable == [c \in {CharAt(LowerCase, i) : i \in 1..Len(LowerCase)} |->
                 CharAt(UpperCase, IndexFrom(LowerCase, c, 1))]

UpperChar(c) == IF c \in DOMAIN UpperTable THEN UpperTable[c] ELSE c

RECURSIVE ToUpper(_)
ToUpper(s) == IF s = "" THEN "" ELSE UpperChar(CharAt(s, 1)) \o ToUpper(Substring(s, 1))

\* The characters of the model in increasing UTF-16 code unit order.
CodeUnitOrder ==
  "!#$%&'()*+,-./0123456789:;<=>?@ABCDEFGHIJKLMNOPQRSTUVWXYZ[]_abcdefghijklmnopqrstuvwxyz{}~"

OrdTable ==
  [c \in {CharAt(CodeUnitOrder, i) : i \in 1..Len(CodeUnitOrder)} |->
     IndexFrom(CodeUnitOrder, c, 1)]

Ord(c) == OrdTable[c]

-----------------------------------------------------------------------------
(* The platform's URL class, for http(s) URLs without dot segments.        *)

Digits == "0123456789"

\* code points a host may not hold (the ones the model's inputs can produce)
ForbiddenHostChars == {" ", "%", "<", ">", "^", "|", "[", "]", "\\"}

BadUrl == [ok |-> FALSE]

DefaultPort(protocol) == IF protocol = "https:" THEN "443" ELSE "80"

\* host[:port] of an authority, lower-cased, default port dropped; "" when invalid
HostPort(name, port, protocol) ==
  IF \/ name = "" \/ \E i \in 1..Len(name) : CharAt(name, i) \in ForbiddenHostChars
     \/ \E i \in 1..Len(port) : ~Includes(Digits, CharAt(port, i))
  THEN ""
  ELSE IF port = "" \/ port = DefaultPort(protocol) THEN name
  ELSE name \o ":" \o port

\* hp is the authority without its userinfo, colon the place of its ":" (0: none)
HostSplit(hp, colon, protocol) ==
  IF colon = 0 THEN HostPort(ToLower(hp), "", protocol)
  ELSE HostPort(ToLower(Sub(hp, 1, colon - 1)), Substring(hp, colon), protocol)

HostNoUser(hp, protocol) == HostSplit(hp, IndexFrom(hp, ":", 1), protocol)

HostOf(authority, protocol) ==
  HostNoUser(Substring(authority, LastIndexOf(authority, "@")), protocol)

\* the part of s from position from up to (not including) the first of stops
UpToAt(s, from, k) == IF k = 0 THEN Sub(s, from, Len(s)) ELSE Sub(s, from, k - 1)

UpTo(s, from, stops) == UpToAt(s, from, FirstOf(s, stops, from))

\* pathname, search and hash of the text that follows the authority
Parts(path, query, hash) ==
  [pathname |-> path, search |-> IF query = "?" THEN "" ELSE query,
   hash |-> IF hash = "#" THEN "" ELSE hash]

QueryHash(path, afterP, query) == Parts(path, query, Substring(afterP, Len(query)))

AfterPath(path, afterP) ==
  QueryHash(path, afterP, IF StartsWith(afterP, "?") THEN UpTo(afterP, 1, {"#"}) ELSE "")

PathThen(rest, path) == AfterPath(path, Substring(rest, Len(path)))

Tail3(rest) == PathThen(rest, UpTo(rest, 1, {"?", "#"}))

\* new URL(str): an absolute http(s) URL, or a TypeError (BadUrl)
\* the scheme of an http(s) URL string, "" for any other string
ProtocolOf(low) ==
  IF StartsWith(low, "https://") THEN "https:"
  ELSE IF StartsWith(low, "http://") THEN "http:" ELSE ""

UrlOf(protocol, host, t) ==
  IF protocol = "" \/ host = "" THEN BadUrl
  ELSE [ok |-> TRUE, protocol |-> protocol, host |-> host,
        pathname |-> IF t.pathname = "" THEN "/" ELSE t.pathname,
        search |-> t.search, hash |-> t.hash]

ParseAuthority(protocol, body, auth) ==
  UrlOf(protocol, HostOf(auth, protocol), Tail3(Substring(body, Len(auth))))

ParseBody(protocol, body) == ParseAuthority(protocol, body, UpTo(body, 1, {"/", "?", "#"}))

ParseWith(str, protocol) == ParseBody(protocol, Substring(str, Len(protocol) + 2))

ParseURL(str) == ParseWith(str, ProtocolOf(ToLower(Sub(str, 1, 8))))

\* url.toString()
Href(u) == u.protocol \o "//" \o u.host \o u.pathname \o u.search \o u.hash

\* url.origin
Origin(u) == u.protocol \o "//" \o u.host

\* the scheme of a reference that starts with one ("mailto:"), "" otherwise
SchemeAt(ref, colon, stop) ==
  IF colon > 1 /\ (stop = 0 \/ colon < stop)
     /\ Includes(LowerCase, LowerChar(CharAt(ref, 1)))
  THEN ToLower(Sub(ref, 1, colon)) ELSE ""

SchemeOf(ref) == SchemeAt(ref, IndexFrom(ref, ":", 1), FirstOf(ref, {"/", "?", "#"}, 1))

\* new URL(ref, base): ref resolved against the absolute URL base
\* a URL of a scheme other than http(s): no host
Opaque(scheme, t) ==
  [ok |-> TRUE, protocol |-> scheme, host |-> "",
   pathname |-> t.pathname, search |-> t.search, hash |-> t.hash]

\* the absolute string of a reference that has no scheme
Absolute(ref, base) ==
  IF StartsWith(ref, "//") THEN base.protocol \o ref
  ELSE IF StartsWith(ref, "/") THEN Origin(base) \o ref
  ELSE IF StartsWith(ref, "?") THEN Origin(base) \o base.pathname \o ref
  ELSE Origin(base) \o Sub(base.pathname, 1, LastIndexOf(base.pathname, "/")) \o ref

ResolveScheme(ref, base, scheme) ==
  IF scheme \notin {"", "http:", "https:"}
  THEN Opaque(scheme, Tail3(Substring(ref, Len(scheme))))
  ELSE IF scheme = "" /\ ref = "" THEN [base EXCEPT !.hash = ""]
  ELSE IF scheme = "" /\ StartsWith(ref, "#")
  THEN [base EXCEPT !.hash = IF ref = "#" THEN "" ELSE ref]
  ELSE ParseURL(IF scheme = "" THEN Absolute(ref, base) ELSE ref)

ResolveURL(ref, base) == ResolveScheme(ref, base, SchemeOf(ref))

-----------------------------------------------------------------------------
(* decodeURIComponent / encodeURIComponent over the model's characters.    *)

\* the reserved characters of the model with their escapes
Escapes ==
  << <<"%", "%25">>, <<":", "%3A">>, <<"/", "%2F">>, <<"?", "%3F">>,
     <<"#", "%23">>, <<"=", "%3D">>, <<"&", "%26">>, <<"@", "%40">>,
     <<" ", "%20">>, <<"\"", "%22">>, <<"<", "%3C">>, <<">", "%3E">> >>

URIError == [ok |-> FALSE]

Escaped == {Escapes[k][1] : k \in 1..Len(Escapes)}

EscapeTable == [c \in Escaped |-> Escapes[CHOOSE k \in 1..Len(Escapes) : Escapes[k][1] = c][2]]

EscapeOf(c) == IF c \in Escaped THEN EscapeTable[c] ELSE c

EscapeCodes == {Escapes[k][2] : k \in 1..Len(Escapes)}

UnescapeTable ==
  [e \in EscapeCodes |-> Escapes[CHOOSE k \in 1..Len(Escapes) : Escapes[k][2] = e][1]]

\* the character an escape sequence stands for, "" when it is malformed
Unescaped(up) == IF up \in EscapeCodes THEN UnescapeTable[up] ELSE ""

UnescapeOf(e) == Unescaped(Sub(e, 1, 1) \o ToUpper(Sub(e, 2, 3)))

RECURSIVE EncodeURIComponent(_)
EncodeURIComponent(s) ==
  IF s = "" THEN "" ELSE EscapeOf(CharAt(s, 1)) \o EncodeURIComponent(Substring(s, 1))

\* the decoded text, or "" with ok = FALSE on a malformed escape
RECURSIVE DecodeFrom(_, _), DecodeEscape(_, _, _)
DecodeFrom(s, acc) ==
  IF s = "" THEN [ok |-> TRUE, text |-> acc]
  ELSE IF CharAt(s, 1) # "%" THEN DecodeFrom(Substring(s, 1), acc \o CharAt(s, 1))
  ELSE DecodeEscape(s, acc, UnescapeOf(Sub(s, 1, 3)))

DecodeEscape(s, acc, c) == IF c = "" THEN URIError ELSE DecodeFrom(Substring(s, 3), acc \o c)

DecodeURIComponent(s) == DecodeFrom(s, "")

-----------------------------------------------------------------------------
(* Configuration.                                                          *)

ALLOWED_DOMAINS ==
  {"store.steampowered.com", "api.steamcmd.net", "cdn.tailwindcss.com",
   "m.bsddji.cn", "download2342.mediafire.com", "steam.ddxnb.cn"}

PROXY_CONFIG ==
  ("/steam" :> "https://store.steampowered.com") @@
  ("/steamcmd" :> "https://api.steamcmd.net") @@
  ("/tailwindcss" :> "https://cdn.tailwindcss.com") @@
  ("/mediafire" :> "https://mediafire.com") @@
  ("/vpn" :> "https://m.bsddji.cn/ssone/0f6daf12a8d5af2552055bb8a01dd9e8") @@
  ("/steamd" :> "https://steam.ddxnb.cn")

HTML_CONTENT_TYPES == {"text/html", "application/xhtml+xml", "application/xml", "text/xml"}

CSS_CONTENT_TYPES == {"text/css"}

JS_CONTENT_TYPES == {"application/javascript", "text/javascript", "application/x-javascript"}

\* SPECIAL_REPLACEMENTS holds no rule for any host
SPECIAL_REPLACEMENTS == <<>>

\* a test by substring instead of membership
IsAllowedLoose(host) == \E d \in ALLOWED_DOMAINS : Includes(d, host)

\* ALLOWED_DOMAINS.has(host)
IsAllowed(host) == host \in ALLOWED_DOMAINS

-----------------------------------------------------------------------------
(* Route resolver: Object.keys(PROXY_CONFIG).sort().reverse(), then the    *)
(* first prefix the path equals or extends by "/".                         *)

NoPrefix == "<null>"

\* the default sort order: by UTF-16 code units, a proper prefix first
LexLess(a, b) ==
  \/ Len(a) < Len(b) /\ Sub(b, 1, Len(a)) = a
  \/ \E i \in 1..Min({Len(a), Len(b)}) :
       /\ Sub(a, 1, i - 1) = Sub(b, 1, i - 1)
       /\ Ord(CharAt(a, i)) < Ord(CharAt(b, i))

RECURSIVE Sorted(_)
Sorted(S) ==
  IF S = {} THEN <<>>
  ELSE LET m == CHOOSE x \in S : \A y \in S \ {x} : LexLess(x, y)
       IN  <<m>> \o Sorted(S \ {m})

Reversed(q) == [i \in 1..Len(q) |-> q[Len(q) + 1 - i]]

\* the keys sorted but not reversed
SortedOnly(keys) == Sorted(keys)

\* Object.keys(...).sort().reverse()
SortedReversed(keys) == Reversed(Sorted(keys))

PrefixMatches(path, prefix) == path = prefix \/ StartsWith(path, prefix \o "/")

\* the loop over prefixes: the first match, the scan ending there
FoundAt(prefixes, k) == IF k = 0 THEN NoPrefix ELSE prefixes[k]

FindPrefix(path, prefixes) ==
  FoundAt(prefixes, MinOrZero({i \in 1..Len(prefixes) : PrefixMatches(path, prefixes[i])}))

-----------------------------------------------------------------------------
(* content.replace(new RegExp(..., 'gi'), template): the patterns of the   *)
(* rewrite passes.  A match is [len, out]: the length of the matched text  *)
(* and the text that replaces it; len = 0 is no match.                     *)

Quotes == {"\"", "'"}

UrlStops == {")", "'", "\""}

NoMatch == [len |-> 0, out |-> ""]

\* a pattern literal matches the text at v: letters regardless of case, "." any character
LitAt(s, v, lit) ==
  /\ v + Len(lit) - 1 <= Len(s)
  /\ \A k \in 1..Len(lit) :
       \/ CharAt(lit, k) = "." /\ CharAt(s, v + k - 1) # "\n"
       \/ LowerChar(CharAt(s, v + k - 1)) = LowerChar(CharAt(lit, k))

\* the length of the literal of lits that matches at v, -1 when none does
LenOfAny(ok) == IF ok = {} THEN -1 ELSE Len(CHOOSE l \in ok : TRUE)

MatchLit(s, v, lits) == LenOfAny({l \in lits : LitAt(s, v, l)})

\* https?://<targetDomain>
AbsLits(targetDomain) == {"http://" \o targetDomain, "https://" \o targetDomain}

\* //<targetDomain>
ProtoLits(targetDomain) == {"//" \o targetDomain}

RootLits == {""}

AttrNames == {"href", "src", "action", "content"}

RelNames == {"href", "src", "action", "data-src", "data-href"}

AssetExts == {"js", "css", "png", "jpg", "jpeg", "gif", "svg", "webp", "ico", "mp3",
              "mp4", "webm", "ogg", "woff", "woff2", "ttf", "eot"}

\* the alternative of names written at i, in any letter case; "" when none
AnyOf(ok) == IF ok = {} THEN "" ELSE CHOOSE n \in ok : TRUE

NameAt(s, i, names) == AnyOf({n \in names : LitAt(s, i, n)})

\* (href|src|action|content)=["']<lit>(/[^"']*?)["']  ->  $1="<root>$2"
MatchAttr(p, s, i) ==
  LET n == NameAt(s, i, AttrNames)
      e == i + Len(n)
      v == e + 2
      l == MatchLit(s, v, p.lits)
      g == v + l
      q == FirstOf(s, Quotes, g + 1)
  IN  IF n = "" \/ CharAt(s, e) # "=" \/ CharAt(s, e + 1) \notin Quotes
         \/ l < 0 \/ CharAt(s, g) # "/" \/ q = 0
      THEN NoMatch
      ELSE [len |-> q - i + 1,
            out |-> Sub(s, i, e - 1) \o "=\"" \o p.root \o Sub(s, g, q - 1) \o "\""]

\* url\(['"]?<lit>(/[^)'"]*?)['"]?\)  ->  url(<root>$1)
MatchUrl(p, s, i) ==
  LET v == IF CharAt(s, i + 4) \in Quotes THEN i + 5 ELSE i + 4
      l == MatchLit(s, v, p.lits)
      g == v + l
      e == FirstOf(s, UrlStops, g + 1)
      close == IF e = 0 THEN 0
               ELSE IF CharAt(s, e) = ")" THEN e
               ELSE IF CharAt(s, e + 1) = ")" THEN e + 1 ELSE 0
  IN  IF ~LitAt(s, i, "url(") \/ l < 0 \/ CharAt(s, g) # "/" \/ close = 0
      THEN NoMatch
      ELSE [len |-> close - i + 1, out |-> "url(" \o p.root \o Sub(s, g, e - 1) \o ")"]

\* where a <base ...> tag whose href= is written at h ends, 0 when it does not match
BaseEnd(p, s, h) ==
  LET v == h + 6
      l == MatchLit(s, v, p.lits)
      g == v + l
      q == IF CharAt(s, g) \in Quotes THEN g
           ELSE IF CharAt(s, g) = "/" THEN FirstOf(s, Quotes, g + 1) ELSE 0
  IN  IF ~LitAt(s, h, "href=") \/ CharAt(s, h + 5) \notin Quotes \/ l < 0 \/ q = 0
      THEN 0 ELSE FirstOf(s, {">"}, q + 1)

\* <base[^>]*href=["']<lit>(?:/[^"']*?)?["'][^>]*>  ->  <base href="<root>/">
MatchBase(p, s, i) ==
  LET gt == FirstOf(s, {">"}, i + 5)
      H  == {h \in (i + 5)..(gt - 1) : BaseEnd(p, s, h) > 0}
  IN  IF ~LitAt(s, i, "<base") \/ gt = 0 \/ H = {} THEN NoMatch
      ELSE [len |-> BaseEnd(p, s, Max(H)) - i + 1,
            out |-> "<base href=\"" \o p.root \o "/\">"]

\* (?!https?:\/\/|\/\/|\/)
NotRooted(s, v) == ~LitAt(s, v, "http://") /\ ~LitAt(s, v, "https://") /\ ~LitAt(s, v, "/")

\* the replacement template `$1="${url.origin}${matchedPrefix}/${targetPathBase}$2"`
RelTemplate(p, name, value) == name \o "=\"" \o p.root \o "/" \o p.base \o value \o "\""

\* (href|src|action|data-src|data-href)=["']((?!https?:\/\/|\/\/|\/)[^"']+)["']
MatchRel(p, s, i) ==
  LET n == NameAt(s, i, RelNames)
      e == i + Len(n)
      v == e + 2
      q == FirstOf(s, Quotes, v)
  IN  IF n = "" \/ CharAt(s, e) # "=" \/ CharAt(s, e + 1) \notin Quotes
         \/ ~NotRooted(s, v) \/ q <= v
      THEN NoMatch
      ELSE [len |-> q - i + 1, out |-> RelTemplate(p, Sub(s, i, e - 1), Sub(s, v, q - 1))]

\* url\(['"]?(?!https?:\/\/|\/\/|\/|data:|\#)([^)'"]*)['"]?\)  ->  url(<root><cssDir>$1)
MatchCssRel(p, s, i) ==
  LET v == IF CharAt(s, i + 4) \in Quotes THEN i + 5 ELSE i + 4
      e == FirstOf(s, UrlStops, v)
      close == IF e = 0 THEN 0
               ELSE IF CharAt(s, e) = ")" THEN e
               ELSE IF CharAt(s, e + 1) = ")" THEN e + 1 ELSE 0
  IN  IF ~LitAt(s, i, "url(") \/ ~NotRooted(s, v) \/ LitAt(s, v, "data:")
         \/ LitAt(s, v, "#") \/ close = 0
      THEN NoMatch
      ELSE [len |-> close - i + 1,
            out |-> "url(" \o p.root \o p.base \o Sub(s, v, e - 1) \o ")"]

\* (['"])<lit>(/[^'"]*?)(['"])  ->  $1<root>$2$3
MatchJsAbs(p, s, i) ==
  LET l == MatchLit(s, i + 1, p.lits)
      g == i + 1 + l
      q == FirstOf(s, Quotes, g + 1)
  IN  IF l < 0 \/ CharAt(s, g) # "/" \/ q = 0 THEN NoMatch
      ELSE [len |-> q - i + 1,
            out |-> CharAt(s, i) \o p.root \o Sub(s, g, q - 1) \o CharAt(s, q)]

\* (['"])(\/[^'"]*?\.(?:js|css|...))(['"])  ->  $1<root>$2$3
MatchJsAsset(p, s, i) ==
  LET q   == FirstOf(s, Quotes, i + 2)
      grp == Sub(s, i + 1, q - 1)
  IN  IF CharAt(s, i + 1) # "/" \/ q = 0
         \/ ~\E x \in AssetExts : Len(grp) >= Len(x) + 2 /\ EndsWith(ToLower(grp), "." \o x)
      THEN NoMatch
      ELSE [len |-> q - i + 1, out |-> CharAt(s, i) \o p.root \o grp \o CharAt(s, q)]

\* the characters a match of each pattern can start with
AttrFirst == {"h", "H", "s", "S", "a", "A", "c", "C"}

RelFirst == {"h", "H", "s", "S", "a", "A", "d", "D"}

UrlFirst == {"u", "U"}

BaseFirst == {"<"}

FirstChars(kind) ==
  CASE kind = "attr" -> AttrFirst
    [] kind = "rel" -> RelFirst
    [] kind \in {"url", "cssrel"} -> UrlFirst
    [] kind = "base" -> BaseFirst
    [] OTHER -> Quotes

MatchAt(p, s, i) ==
  CASE p.kind = "attr" -> MatchAttr(p, s, i)
    [] p.kind = "url" -> MatchUrl(p, s, i)
    [] p.kind = "base" -> MatchBase(p, s, i)
    [] p.kind = "rel" -> MatchRel(p, s, i)
    [] p.kind = "cssrel" -> MatchCssRel(p, s, i)
    [] p.kind = "jsabs" -> MatchJsAbs(p, s, i)
    [] OTHER -> MatchJsAsset(p, s, i)

\* String.prototype.replace with a global pattern: leftmost matches, left to right,
\* each search resuming after the previous match
RECURSIVE ReplaceFrom(_, _, _)

\* the match m found at position at replaced, the search resumed behind it
Spliced(p, s, from, at, m) ==
  Sub(s, from, at - 1) \o m.out \o ReplaceFrom(p, s, at + m.len)

\* the leftmost position >= from at which the pattern matches, 0 when none
FirstMatch(p, s, from) ==
  MinOrZero({i \in from..Len(s) : SubSeq(s, i, i) \in p.first /\ MatchAt(p, s, i).len > 0})

ReplaceAt(p, s, from, at) ==
  IF at = 0 THEN Sub(s, from, Len(s)) ELSE Spliced(p, s, from, at, MatchAt(p, s, at))

ReplaceFrom(p, s, from) == ReplaceAt(p, s, from, FirstMatch(p, s, from))

ReplaceAll(p, s) == ReplaceFrom(p, s, 1)

\* content = content.replace(...) for each pattern of passes, in order
RECURSIVE RunPasses(_, _)
RunPasses(passes, s) ==
  IF passes = <<>> THEN s ELSE RunPasses(Tail(passes), ReplaceAll(Head(passes), s))

Pattern(kind, lits, root, base) ==
  [kind |-> kind, lits |-> lits, root |-> root, base |-> base, first |-> FirstChars(kind)]

-----------------------------------------------------------------------------
(* Response rewriter: the ordered passes per content family.               *)

\* HTML_CONTENT_TYPES.some(type => contentType.includes(type)), in any letter case
IsHtmlAnyCase(contentType) == \E t \in HTML_CONTENT_TYPES : Includes(ToLower(contentType), t)

IsHtml(contentType) == \E t \in HTML_CONTENT_TYPES : Includes(contentType, t)

IsCss(contentType) == \E t \in CSS_CONTENT_TYPES : Includes(contentType, t)

IsJs(contentType) == \E t \in JS_CONTENT_TYPES : Includes(contentType, t)

NeedsRewrite(contentType) == IsHtml(contentType) \/ IsCss(contentType) \/ IsJs(contentType)

\* pathname.substring(0, pathname.lastIndexOf('/') + 1)
DirOf(pathname) == Sub(pathname, 1, LastIndexOf(pathname, "/"))

\* the template literal fixScript (the indentation of its lines left out)
FixScript(origin, matchedPrefix) ==
  "\n"
  \o "<script>\n"
  \o "(function() {\n"
  \o "const observer = new MutationObserver(function(mutations) {\n"
  \o "mutations.forEach(function(mutation) {\n"
  \o "if (mutation.type === 'childList') {\n"
  \o "mutation.addedNodes.forEach(function(node) {\n"
  \o "if (node.nodeType === 1) {\n"
  \o "const elements = node.querySelectorAll('script[src], link[href], img[src], a[href], [data-src], [data-href]');\n"
  \o "elements.forEach(function(el) {\n"
  \o "['src', 'href', 'data-src', 'data-href'].forEach(function(attr) {\n"
  \o "if (el.hasAttribute(attr)) {\n"
  \o "let val = el.getAttribute(attr);\n"
  \o "if (val && !val.match(/^(https?:|//|" \o origin \o ")/)) {\n"
  \o "if (val.startsWith('/')) {\n"
  \o "el.setAttribute(attr, '" \o origin \o matchedPrefix \o "' + val);\n"
  \o "}\n"
  \o "}\n"
  \o "}\n"
  \o "});\n"
  \o "});\n"
  \o "\n"
  \o "const elementsWithStyle = node.querySelectorAll('[style*=\"url(\"]');\n"
  \o "elementsWithStyle.forEach(function(el) {\n"
  \o "let style = el.getAttribute('style');\n"
  \o "if (style) {\n"
  \o "style = style.replace(/url\\(['\"]?(\\/[^)'\"]*?)['\"]?\\)/gi,\n"
  \o "'url(" \o origin \o matchedPrefix \o "$1)');\n"
  \o "el.setAttribute('style', style);\n"
  \o "}\n"
  \o "});\n"
  \o "}\n"
  \o "});\n"
  \o "}\n"
  \o "});\n"
  \o "});\n"
  \o "\n"
  \o "observer.observe(document.body, {\n"
  \o "childList: true,\n"
  \o "subtree: true\n"
  \o "});\n"
  \o "})();\n"
  \o "</script>\n"

\* the script goes before the last </body>, or at the end
InsertAt(content, script, pos) ==
  IF pos # 0 THEN Sub(content, 1, pos - 1) \o script \o Sub(content, pos, Len(content))
  ELSE content \o script

InsertFixScript(content, script) == InsertAt(content, script, LastIndexOf(content, "</body>"))

\* the eight replace passes of the HTML branch, in order
HtmlPatterns(root, dom, dir) ==
  << Pattern("attr", AbsLits(dom), root, ""),
     Pattern("attr", ProtoLits(dom), root, ""),
     Pattern("attr", RootLits, root, ""),
     Pattern("url", AbsLits(dom), root, ""),
     Pattern("url", ProtoLits(dom), root, ""),
     Pattern("url", RootLits, root, ""),
     Pattern("base", AbsLits(dom), root, ""),
     Pattern("rel", {}, root, dir) >>

\* the three absolute-URL passes and the relative pass of the CSS branch
CssPatterns(root, dom, dir) ==
  << Pattern("url", AbsLits(dom), root, ""),
     Pattern("url", ProtoLits(dom), root, ""),
     Pattern("url", RootLits, root, ""),
     Pattern("cssrel", {}, root, dir) >>

\* the three passes of the JavaScript branch
JsPatterns(root, dom, dir) ==
  << Pattern("jsabs", AbsLits(dom), root, ""),
     Pattern("jsabs", ProtoLits(dom), root, ""),
     Pattern("jsasset", {}, root, "") >>

HtmlPasses(content, origin, matchedPrefix, targetUrl) ==
  RunPasses(HtmlPatterns(origin \o matchedPrefix, targetUrl.host, DirOf(targetUrl.pathname)),
            content)

RewriteHtml(content, origin, matchedPrefix, targetUrl) ==
  InsertFixScript(HtmlPasses(content, origin, matchedPrefix, targetUrl),
                  FixScript(origin, matchedPrefix))

\* the replace passes of each branch of the needsRewrite block that contentType
\* enters, in the order the branches run (the HTML passes are HtmlPasses above)
PassesFor(contentType, root, dom, dir) ==
  (IF IsCss(contentType) THEN CssPatterns(root, dom, dir) ELSE <<>>)
  \o (IF IsJs(contentType) THEN JsPatterns(root, dom, dir) ELSE <<>>)

\* the body of the needsRewrite branch: each family's passes when its list matches
Rewrite(content, contentType, origin, matchedPrefix, targetUrl) ==
  RunPasses(PassesFor(contentType, origin \o matchedPrefix, targetUrl.host,
                      DirOf(targetUrl.pathname)),
            IF IsHtml(contentType)
            THEN RewriteHtml(content, origin, matchedPrefix, targetUrl) ELSE content)

-----------------------------------------------------------------------------
(* Responses.  A header that is absent is NoHeader.                        *)

NoHeader == "<none>"

CorsMethods == "GET, POST, PUT, DELETE, PATCH, OPTIONS"

CorsHeaders == "Content-Type, Authorization, X-Requested-With, Accept, Origin, Range"

PlainText == "text/plain;charset=UTF-8"

\* a Response with no header set
BareResponse(status, body) ==
  [kind |-> "response", status |-> status, body |-> body,
   acao |-> NoHeader, acam |-> NoHeader, acah |-> NoHeader, acma |-> NoHeader,
   contentType |-> NoHeader, location |-> NoHeader, cacheControl |-> NoHeader,
   pragma |-> NoHeader, expires |-> NoHeader, security |-> FALSE]

\* the 204 answer to a preflight
PreflightResponse ==
  [BareResponse(204, "") EXCEPT !.acao = "*", !.acam = CorsMethods, !.acah = CorsHeaders,
                                  !.acma = "86400", !.cacheControl = "public, max-age=86400"]

\* the plain-text error responses (the messages are in Chinese in the source)
ErrorResponse(status, message) ==
  [BareResponse(status, message) EXCEPT !.acao = "*", !.contentType = PlainText]

\* the handler ended by throwing
Uncaught(error) == [kind |-> "throw", error |-> error]

\* catch (error) of the generic path
GenericCatch(error) == ErrorResponse(502, "proxy request failed: " \o error)

\* a prefix path whose failures escape the handler
PrefixRethrow(error) == Uncaught(error)

\* catch (error) of the prefix path
PrefixCatch(error) == ErrorResponse(502, "proxy request failed")

\* return; (no rule matched)
NoResponseProduced == [kind |-> "undefined"]

\* statuses whose Response may not carry a body
NullBodyStatus == {101, 204, 205, 304}

\* new Response(response.body, {status, statusText, headers: response.headers})
CopyResponse(u, body) ==
  [BareResponse(u.status, body) EXCEPT
     !.contentType = IF u.contentType = "" THEN NoHeader ELSE u.contentType,
     !.location = u.location, !.security = u.security]

\* the CORS headers set and the four security headers deleted
Normalized(resp) ==
  [resp EXCEPT !.acao = "*", !.acam = CorsMethods, !.acah = CorsHeaders, !.security = FALSE]

\* the cache policy by content family
Cached(resp, contentType) ==
  IF IsHtml(contentType)
  THEN [resp EXCEPT !.cacheControl = "no-store, no-cache, must-revalidate, proxy-revalidate",
                    !.pragma = "no-cache", !.expires = "0"]
  ELSE [resp EXCEPT !.cacheControl = "public, max-age=86400"]

\* a validator that looks at 302 only
IsFound(u) == u.status = 302 /\ u.location # NoHeader

\* response.status >= 300 && response.status < 400 && response.headers.has('location')
IsRedirect(u) == u.status >= 300 /\ u.status < 400 /\ u.location # NoHeader

-----------------------------------------------------------------------------
(* Upstream request builder.                                               *)

\* the rewritten Referer: the target's origin with the referer's path and query;
\* a referer that does not parse stays as the client sent it
RefererOf(referer, refUrl, targetUrl) ==
  IF referer = "" THEN Origin(targetUrl) \o "/"
  ELSE IF refUrl.ok THEN Origin(targetUrl) \o refUrl.pathname \o refUrl.search
  ELSE referer

RefererFor(r, targetUrl) == RefererOf(r.referer, ParseURL(r.referer), targetUrl)

\* new Request(targetUrl.toString(), {...}) and the headers set on it; url is
\* new URL(request.url)
RequestTo(r, url, targetUrl) ==
  [to |-> targetUrl, url |-> Href(targetUrl), method |-> r.method, redirect |-> "manual",
   host |-> targetUrl.host, xForwardedFor |-> r.ip,
   xForwardedHost |-> url.host,
   xForwardedProto |-> Sub(url.protocol, 1, Len(url.protocol) - 1),
   acceptEncoding |-> NoHeader, referer |-> RefererFor(r, targetUrl)]

BuildRequest(r, targetUrl) == RequestTo(r, ParseURL(r.origin), targetUrl)

-----------------------------------------------------------------------------
(* Redirect validator.                                                     *)

\* `${url.origin}/proxy/${encodeURIComponent(redirectedUrl.toString())}`
GenericLocation(origin, redirectedUrl) ==
  origin \o "/proxy/" \o EncodeURIComponent(Href(redirectedUrl))

\* a Location that leaves the query out
PrefixLocationNoQuery(origin, matchedPrefix, redirectedUrl) ==
  origin \o matchedPrefix \o redirectedUrl.pathname

\* url.origin + matchedPrefix + redirectedUrl.pathname + redirectedUrl.search
PrefixLocation(origin, matchedPrefix, redirectedUrl) ==
  origin \o matchedPrefix \o redirectedUrl.pathname \o redirectedUrl.search

RedirectForbidden(host) == ErrorResponse(403, "redirect target domain " \o host \o " is not in the allow list")

-----------------------------------------------------------------------------
(* The handler, from the request to the first await.                       *)

NoFetch == [url |-> NoHeader]

NoUpstream == [status |-> 0]

NoResponse == [kind |-> "none"]

NoExpect == [from |-> "none", hops |-> 0]

NoCtx == [kind |-> "none", matchedPrefix |-> NoPrefix, targetUrl |-> BadUrl,
          redirectedUrl |-> BadUrl]

Ctx(kind, matchedPrefix, targetUrl) ==
  [kind |-> kind, matchedPrefix |-> matchedPrefix, targetUrl |-> targetUrl,
   redirectedUrl |-> BadUrl]

\* a preflight test placed after the /proxy/ branch
IsPreflightOffProxy(r) == r.method = "OPTIONS" /\ ~StartsWith(r.path, "/proxy/")

\* request.method === "OPTIONS", tested before anything else
IsPreflight(r) == r.method = "OPTIONS"

\* the handler returned (or threw) before any await
Returned(c, seen, resp) ==
  [pc |-> "done", ctx |-> c, visited |-> seen, fetched |-> NoFetch, response |-> resp]

\* the handler is suspended in fetch(proxyRequest)
Fetching(c, seen, r) ==
  [pc |-> "fetch", ctx |-> c, visited |-> seen \cup {"Fetch"},
   fetched |-> BuildRequest(r, c.targetUrl), response |-> NoResponse]

\* the target string of /proxy/<url>: decoded when it starts with an encoded
\* scheme, https:// put in front when it has no scheme
WithScheme(dec) ==
  IF ~dec.ok THEN URIError
  ELSE IF ~StartsWith(dec.text, "http://") /\ ~StartsWith(dec.text, "https://")
  THEN [ok |-> TRUE, text |-> "https://" \o dec.text]
  ELSE dec

Decoded(raw) ==
  WithScheme(IF StartsWith(raw, "http%3A%2F%2F") \/ StartsWith(raw, "https%3A%2F%2F")
             THEN DecodeURIComponent(raw) ELSE [ok |-> TRUE, text |-> raw])

GenericTargetString(path) == Decoded(Substring(path, Len("/proxy/")))

\* the generic path from new URL(targetUrlString) (tu) to the fetch
GenericTarget(r, ts, tu) ==
  IF ~tu.ok
  THEN Returned(Ctx("generic", NoPrefix, BadUrl), {"RouteResolver"},
                GenericCatch("TypeError: Invalid URL"))
  ELSE IF ~IsAllowed(tu.host)
  THEN Returned(Ctx("generic", NoPrefix, tu), {"RouteResolver", "AllowList"},
                ErrorResponse(403, "proxying this domain is forbidden: " \o tu.host))
  ELSE Fetching(Ctx("generic", NoPrefix,
                    IF r.search # "" /\ ~Includes(ts.text, "?")
                    THEN [tu EXCEPT !.search = r.search] ELSE tu),
                {"RouteResolver", "AllowList"}, r)

GenericParsed(r, ts) ==
  IF ~ts.ok
  THEN Returned(Ctx("generic", NoPrefix, BadUrl), {"RouteResolver"},
                GenericCatch("URIError: URI malformed"))
  ELSE GenericTarget(r, ts, ParseURL(ts.text))

GenericDispatch(r) == GenericParsed(r, GenericTargetString(r.path))

\* targetBaseUrl.replace(/\/$/, '')
StripTrailingSlash(base) == IF EndsWith(base, "/") THEN Sub(base, 1, Len(base) - 1) ELSE base

\* const prefixes = Object.keys(PROXY_CONFIG).sort().reverse()
Prefixes == SortedReversed(DOMAIN PROXY_CONFIG)

\* the prefix path from new URL(targetUrlString) (tu) to the fetch
PrefixTarget(r, mp, tu) ==
  IF ~tu.ok
  THEN Returned(Ctx("prefix", mp, BadUrl), {"RouteResolver"}, Uncaught("TypeError: Invalid URL"))
  ELSE IF ~IsAllowed(tu.host)
  THEN Returned(Ctx("prefix", mp, tu), {"RouteResolver", "AllowList"},
                ErrorResponse(403, "target domain " \o tu.host \o " is not in the allow list"))
  ELSE Fetching(Ctx("prefix", mp, [tu EXCEPT !.search = r.search]),
                {"RouteResolver", "AllowList"}, r)

PrefixMatched(r, mp) ==
  IF mp = NoPrefix
  THEN Returned(Ctx("nomatch", NoPrefix, BadUrl), {"RouteResolver"}, NoResponseProduced)
  ELSE PrefixTarget(r, mp, ParseURL(StripTrailingSlash(PROXY_CONFIG[mp])
                                    \o Substring(r.path, Len(mp))))

PrefixDispatch(r) == PrefixMatched(r, FindPrefix(r.path, Prefixes))

Dispatch(r) ==
  IF IsPreflight(r) THEN Returned(Ctx("options", NoPrefix, BadUrl), {}, PreflightResponse)
  ELSE IF StartsWith(r.path, "/proxy/") THEN GenericDispatch(r)
  ELSE PrefixDispatch(r)

-----------------------------------------------------------------------------
(* The handler, after fetch() resolved.                                    *)

\* what the handler returns, with the redirect target it validated (if any)
Answer(resp, redirectedUrl) == [response |-> resp, redirectedUrl |-> redirectedUrl]

\* the generic path from the new Response to the return: base is the response
\* built so far, red is new URL(location, targetUrl)
GenericRedirect(r, u, base, red) ==
  IF ~IsRedirect(u) THEN Answer(base, BadUrl)
  ELSE IF ~red.ok THEN Answer(GenericCatch("TypeError: Invalid URL"), BadUrl)
  ELSE IF IsAllowed(red.host)
  THEN Answer([base EXCEPT !.location = GenericLocation(r.origin, red)], red)
  ELSE Answer(RedirectForbidden(red.host), BadUrl)

GenericFinish(r, c, u) ==
  GenericRedirect(r, u, Normalized(CopyResponse(u, u.body)),
                  ResolveURL(u.location, c.targetUrl))

\* the redirect handling of the prefix path
PrefixRedirect(r, c, u, base, red) ==
  IF ~IsRedirect(u) THEN Answer(base, BadUrl)
  ELSE IF ~red.ok THEN Answer(PrefixCatch("TypeError: Invalid URL"), BadUrl)
  ELSE IF ~IsAllowed(red.host) THEN Answer(RedirectForbidden(red.host), BadUrl)
  ELSE Answer([base EXCEPT !.location = PrefixLocation(r.origin, c.matchedPrefix, red)], red)

\* the prefix path from the new Response to the return; rewritten tells whether
\* the body is the rewritten text (a string) or the upstream stream
PrefixFinish(r, c, u, body, rewritten) ==
  IF rewritten /\ u.status \in NullBodyStatus
  THEN Answer(PrefixCatch("TypeError: Response with null body status cannot have body"),
              BadUrl)
  ELSE PrefixRedirect(r, c, u, Cached(Normalized(CopyResponse(u, body)), u.contentType),
                      ResolveURL(u.location, c.targetUrl))

-----------------------------------------------------------------------------
(* The requests and upstream responses the model draws.                    *)

\* the longest chain of redirects a client follows
MaxHops == 2

ProxyOrigin == "https://px.netlify.app"

ClientIp == "203.0.113.9"

Req(method, path, search, referer) ==
  [method |-> method, path |-> path, search |-> search, referer |-> referer,
   ip |-> ClientIp, origin |-> ProxyOrigin]

GenericPaths ==
  {"/proxy/https://store.steampowered.com/login",
   "/proxy/api.steamcmd.net/v1/info",
   "/proxy/https%3A%2F%2Fapi.steamcmd.net%2Fv1%3Fx%3D1",
   "/proxy/https://evil.example/x",
   "/proxy/https%3A%2F%2Fevil.example%2F%ZZ",
   "/proxy/",
   "/proxy/https://store.steampowered.com@evil.example/",
   "/proxy/mediafire.com/f"}

PrefixPaths ==
  {"/steam", "/steam/app/index.html", "/steamcmd/v1/info", "/steamd/",
   "/mediafire/file/x", "/vpn/sub/page.html", "/tailwindcss/t.css"}

OtherPaths == {"/steamy/x", "/", "/index.html"}

Requests ==
  {Req(m, p, "", "") : m \in {"GET", "POST", "OPTIONS"},
                       p \in GenericPaths \cup PrefixPaths \cup OtherPaths}
  \cup
  {Req("GET", p, q, f) :
     p \in {"/proxy/https://store.steampowered.com/login",
            "/proxy/https%3A%2F%2Fapi.steamcmd.net%2Fv1%3Fx%3D1",
            "/steam/app/index.html", "/vpn/sub/page.html"},
     q \in {"", "?a=1"},
     f \in {"", "https://px.netlify.app/steam/prev?p=1", "not a url"}}

Locations ==
  {"/login", "next?y=2", "https://api.steamcmd.net/v1?x=1", "https://evil.example/steal",
   "//evil.example/x", "http://", "mailto:a@b"}

ContentTypes ==
  {"", "text/html; charset=utf-8", "Text/HTML; charset=utf-8", "application/xhtml+xml",
   "text/css", "application/javascript", "image/png"}

HtmlBody == "<a href=\"/a.png\">x</a><img src='pic.png'><p style=\"background:url('/i.png')\"></body>"

CssBody == "a{background:url(/img/x.png)}b{background:url(i.png)}"

JsBody == "var u=\"/app.js\";var v='https://store.steampowered.com/y';"

MovedBody == "<a href=\"/moved\">moved</a>"

Upstream(status, contentType, location, security, body) ==
  [status |-> status, contentType |-> contentType, location |-> location,
   security |-> security, body |-> IF status \in NullBodyStatus THEN "" ELSE body]

UpstreamResponses ==
  {Upstream(st, ct, loc, TRUE, MovedBody) :
     st \in {200, 300, 302, 304, 400}, ct \in {"", "text/html; charset=utf-8"},
     loc \in Locations}
  \cup
  {Upstream(200, ct, NoHeader, sec, b) :
     ct \in ContentTypes, sec \in BOOLEAN, b \in {HtmlBody, CssBody, JsBody}}
  \cup
  {Upstream(st, ct, NoHeader, TRUE, "") :
     st \in {204, 304, 400}, ct \in {"", "text/html; charset=utf-8"}}

-----------------------------------------------------------------------------
(* The handler as a state machine: one request at a time, suspended at     *)
(* each await.                                                             *)

RestIdle == <<table, inPath, scan, matched, doc, out1, out2>>

Init ==
  /\ pc = "idle"
  /\ request = Req("GET", "/", "", "")
  /\ ctx = NoCtx
  /\ visited = {}
  /\ fetched = NoFetch
  /\ upstream = NoUpstream
  /\ response = NoResponse
  /\ expect = NoExpect
  /\ table = {}
  /\ inPath = ""
  /\ scan = <<>>
  /\ matched = NoPrefix
  /\ doc = ""
  /\ out1 = ""
  /\ out2 = ""

\* the handler runs on r up to its first await, or to its return
Started(r, d, exp) ==
  /\ request' = r
  /\ pc' = d.pc
  /\ ctx' = d.ctx
  /\ visited' = d.visited
  /\ fetched' = d.fetched
  /\ response' = d.response
  /\ upstream' = NoUpstream
  /\ expect' = exp
  /\ UNCHANGED RestIdle

Accept(r, exp) == Started(r, Dispatch(r), exp)

\* a request arrives
HandleRequest ==
  /\ pc = "idle"
  /\ \E r \in Requests : Accept(r, NoExpect)

\* the response is sent and the request's context discarded
Discard ==
  /\ pc = "done"
  /\ pc' = "idle"
  /\ request' = Req("GET", "/", "", "")
  /\ ctx' = NoCtx
  /\ visited' = {}
  /\ fetched' = NoFetch
  /\ upstream' = NoUpstream
  /\ response' = NoResponse
  /\ expect' = NoExpect
  /\ UNCHANGED RestIdle

\* the request a client makes when it follows the Location of a 3xx answer
RequestFor(url) == Req("GET", url.pathname, url.search, "")

FollowUp(r, location) == RequestFor(ParseURL(location))

\* the client follows the redirect the proxy returned
FollowRedirect ==
  /\ pc = "done"
  /\ response.kind = "response"
  /\ response.status >= 300 /\ response.status < 400
  /\ ctx.redirectedUrl.ok
  /\ expect.hops < MaxHops
  /\ Accept(FollowUp(request, response.location),
            [from |-> ctx.kind, url |-> ctx.redirectedUrl, hops |-> expect.hops + 1])

\* the handler returns resp
Return(answer, seen) ==
  /\ pc' = "done"
  /\ response' = answer.response
  /\ visited' = visited \cup seen
  /\ ctx' = [ctx EXCEPT !.redirectedUrl = answer.redirectedUrl]
  /\ UNCHANGED <<request, fetched, expect>>
  /\ UNCHANGED RestIdle

\* fetch() resolves with u: the generic path returns; the prefix path returns an
\* opaque body as it is, or awaits the text of a body it rewrites
FetchResolves ==
  /\ pc = "fetch"
  /\ \E u \in UpstreamResponses :
       /\ upstream' = u
       /\ IF ctx.kind = "generic" THEN Return(GenericFinish(request, ctx, u), {})
          ELSE IF NeedsRewrite(u.contentType)
          THEN /\ pc' = "text"
               /\ UNCHANGED <<request, ctx, visited, fetched, response, expect>>
               /\ UNCHANGED RestIdle
          ELSE Return(PrefixFinish(request, ctx, u, u.body, FALSE), {})

\* fetch() rejects: the catch of the path in hand answers
FetchRejects ==
  /\ pc = "fetch"
  /\ upstream' = upstream
  /\ Return(Answer(IF ctx.kind = "generic" THEN GenericCatch("TypeError: fetch failed")
                   ELSE PrefixCatch("TypeError: fetch failed"), BadUrl), {})

\* clonedResponse.text() resolves: the body is rewritten and the response built
TextResolves ==
  /\ pc = "text"
  /\ upstream' = upstream
  /\ Return(PrefixFinish(request, ctx, upstream,
                         Rewrite(upstream.body, upstream.contentType, request.origin,
                                 ctx.matchedPrefix, ctx.targetUrl), TRUE),
            {"Rewriter"})

\* clonedResponse.text() rejects
TextRejects ==
  /\ pc = "text"
  /\ upstream' = upstream
  /\ Return(Answer(PrefixCatch("TypeError: body read failed"), BadUrl), {})

Next ==
  \/ HandleRequest
  \/ Discard
  \/ FollowRedirect
  \/ FetchResolves
  \/ FetchRejects
  \/ TextResolves
  \/ TextRejects

Spec == Init /\ [][Next]_vars

-----------------------------------------------------------------------------
(* Properties of the handler.                                              *)

\* the handler has finished on the generic or on the prefix path
Answered == pc = "done" /\ ctx.kind \in {"generic", "prefix"}

\* the upstream response in hand is a redirect whose Location parses
RedirectSeen ==
  /\ Answered
  /\ upstream # NoUpstream
  /\ upstream.status >= 300 /\ upstream.status < 400
  /\ upstream.location # NoHeader
  /\ ResolveURL(upstream.location, ctx.targetUrl).ok

\* the Location of the upstream response resolved against the target URL
Resolved == ResolveURL(upstream.location, ctx.targetUrl)

\* the body could not be rewritten: the prefix path answers 502 without a Location
RewriteFailed ==
  /\ ctx.kind = "prefix"
  /\ NeedsRewrite(upstream.contentType)
  /\ response.status = 502
  /\ response.location = NoHeader

\* C1: on both paths a target whose host is not in the allow list is answered 403
\* without a fetch, and every fetch issued goes to a host in the allow list.
C1_AllowListBeforeFetch ==
  /\ fetched # NoFetch => fetched.to.host \in ALLOWED_DOMAINS /\ fetched.host \in ALLOWED_DOMAINS
  /\ (Answered /\ ctx.targetUrl.ok /\ ctx.targetUrl.host \notin ALLOWED_DOMAINS)
       => /\ response.kind = "response"
          /\ response.status = 403
          /\ fetched = NoFetch
          /\ "Fetch" \notin visited

C1_Witness ==
  /\ pc = "done"
  /\ ctx.kind = "prefix"
  /\ ctx.matchedPrefix = "/mediafire"
  /\ ctx.targetUrl.ok
  /\ ctx.targetUrl.host = "mediafire.com"
  /\ response.status = 403
  /\ fetched = NoFetch

\* C2 as stated: a redirect whose resolved host is outside the allow list is always
\* answered 403, without the upstream Location, status or body.
C2_ForbiddenRedirectIs403 ==
  (RedirectSeen /\ Resolved.host \notin ALLOWED_DOMAINS)
    => /\ response.kind = "response"
       /\ response.status = 403
       /\ response.contentType = PlainText
       /\ response.location = NoHeader
       /\ response.body # upstream.body

\* C2, amended: a redirect whose resolved host is outside the allow list is answered
\* 403 in plain text, or 502 in plain text on the prefix path when the body of a
\* rewritable response cannot be read or re-attached; neither answer carries the
\* upstream Location, status or body.
C2_ForbiddenRedirectNotSurfaced ==
  (RedirectSeen /\ Resolved.host \notin ALLOWED_DOMAINS)
    => /\ response.kind = "response"
       /\ response.status = 403 \/ RewriteFailed
       /\ response.contentType = PlainText
       /\ response.location = NoHeader
       /\ response.status # upstream.status
       /\ response.body # upstream.body

C2_Witness ==
  /\ RedirectSeen
  /\ ctx.kind = "prefix"
  /\ upstream.status = 300
  /\ upstream.location = "https://evil.example/steal"
  /\ Resolved.host = "evil.example"
  /\ response.status = 403
  /\ response.location = NoHeader

\* the Location the claim describes for the redirect in hand
GenericLocationOk ==
  /\ StartsWith(response.location, request.origin \o "/proxy/")
  /\ ~Includes(Substring(response.location, Len(request.origin \o "/proxy/")), "/")
  /\ DecodeURIComponent(Substring(response.location, Len(request.origin \o "/proxy/")))
       = [ok |-> TRUE, text |-> Href(Resolved)]

PrefixLocationOk ==
  response.location =
    request.origin \o ctx.matchedPrefix \o Resolved.pathname \o Resolved.search

LocationRewritten ==
  /\ response.kind = "response"
  /\ response.status = upstream.status
  /\ IF ctx.kind = "generic" THEN GenericLocationOk ELSE PrefixLocationOk

\* C3 as stated: a redirect whose resolved host is in the allow list always comes
\* back with the upstream status and the rewritten Location.
C3_RedirectAlwaysRewritten ==
  (RedirectSeen /\ Resolved.host \in ALLOWED_DOMAINS) => LocationRewritten

\* C3, amended: a redirect whose resolved host is in the allow list comes back with
\* the upstream status and Location <origin><prefix><path><query> (prefix path) or
\* <origin>/proxy/<encoded URL> (generic path), unless the prefix path fails to read
\* or re-attach the body of a rewritable response and answers 502 without Location.
C3_RedirectRewritten ==
  (RedirectSeen /\ Resolved.host \in ALLOWED_DOMAINS)
    => LocationRewritten \/ (response.kind = "response" /\ RewriteFailed)

C3_Witness ==
  /\ RedirectSeen
  /\ ctx.kind = "prefix"
  /\ upstream.status = 302
  /\ upstream.location = "next?y=2"
  /\ response.status = 302
  /\ response.location = ProxyOrigin \o ctx.matchedPrefix \o Resolved.pathname \o "?y=2"

\* C5: an OPTIONS request, whatever its path, is answered 204 with the fixed CORS
\* and cache headers, and nothing else runs: no route resolution, no allow-list
\* check, no fetch.
C5_PreflightBypassesAll ==
  (pc # "idle" /\ request.method = "OPTIONS")
    => /\ pc = "done"
       /\ response.kind = "response"
       /\ response.status = 204
       /\ response.body = ""
       /\ response.acao = "*"
       /\ response.acam = CorsMethods
       /\ response.acah = CorsHeaders
       /\ response.acma = "86400"
       /\ response.cacheControl = "public, max-age=86400"
       /\ visited = {}
       /\ fetched = NoFetch

C5_Witness ==
  /\ pc = "done"
  /\ request.method = "OPTIONS"
  /\ StartsWith(request.path, "/proxy/https://evil.example")
  /\ response.status = 204

\* C6: on the generic and on the prefix path the handler always ends by returning
\* a response that carries Access-Control-Allow-Origin, never by throwing: 502
\* when the target cannot be built or the fetch or body read fails, and the normal
\* request when only the Referer does not parse.
C6_FailuresAreAnswered ==
  /\ Answered
       => /\ response.kind = "response"
          /\ response.acao = "*"
          /\ ~ctx.targetUrl.ok => response.status = 502
          /\ (fetched # NoFetch /\ upstream = NoUpstream) => response.status = 502
  /\ (pc = "fetch" /\ request.referer # "" /\ ~ParseURL(request.referer).ok)
       => fetched.referer = request.referer

C6_Witness ==
  /\ Answered
  /\ ctx.kind = "prefix"
  /\ fetched # NoFetch
  /\ upstream = NoUpstream
  /\ response.status = 502
  /\ response.acao = "*"

\* C8 as stated: a Content-Type that holds a type of the HTML list in any letter
\* case is rewritten; the response is passed through only when it holds none.
C8_AnyCaseIsRewritten ==
  (/\ Answered
   /\ ctx.kind = "prefix"
   /\ upstream # NoUpstream
   /\ IsHtmlAnyCase(upstream.contentType)
   /\ response.status = upstream.status)
    => "Rewriter" \in visited /\ response.body # upstream.body

\* C10 as stated: the request that follows the rewritten Location of a redirect of
\* the prefix path is resolved to the URL the redirect pointed to.
C10_RedirectRoundTrip ==
  (expect.from = "prefix" /\ pc # "idle")
    => /\ ctx.targetUrl.ok
       /\ ctx.targetUrl.host = expect.url.host
       /\ ctx.targetUrl.pathname = expect.url.pathname
       /\ ctx.targetUrl.search = expect.url.search

-----------------------------------------------------------------------------
(* The route resolver over any route table: the keys sorted and reversed,  *)
(* then scanned from the front until one matches.                          *)

\* the longest prefix of a route and the longest path the tables below hold,
\* counted without the leading "/", and the most routes of a table
MaxPrefixLen == 2

MaxPathLen == 3

MaxRoutes == 2

Alphabet == {"-", "/", "a"}

RECURSIVE Words(_)
Words(n) == IF n = 0 THEN {""} ELSE Words(n - 1) \cup {w \o c : w \in Words(n - 1), c \in Alphabet}

RouteKeys == {"/" \o w : w \in Words(MaxPrefixLen)}

\* the tables of at most n routes
RECURSIVE TablesOf(_)
TablesOf(n) ==
  IF n = 0 THEN {{}}
  ELSE TablesOf(n - 1) \cup {t \cup {k} : t \in TablesOf(n - 1), k \in RouteKeys}

RouteTables == TablesOf(MaxRoutes) \ {{}}

InboundPaths == {"/" \o w : w \in Words(MaxPathLen)}

RestResolve == <<request, ctx, visited, fetched, upstream, response, expect, doc, out1, out2>>

InitResolve ==
  /\ pc = "keys"
  /\ table \in RouteTables
  /\ inPath \in InboundPaths
  /\ scan = <<>>
  /\ matched = NoPrefix
  /\ request = Req("GET", "/", "", "")
  /\ ctx = NoCtx
  /\ visited = {}
  /\ fetched = NoFetch
  /\ upstream = NoUpstream
  /\ response = NoResponse
  /\ expect = NoExpect
  /\ doc = ""
  /\ out1 = ""
  /\ out2 = ""

\* const prefixes = Object.keys(PROXY_CONFIG).sort().reverse()
SortKeys ==
  /\ pc = "keys"
  /\ scan' = SortedReversed(table)
  /\ pc' = "scan"
  /\ UNCHANGED <<table, inPath, matched>>
  /\ UNCHANGED RestResolve

\* one turn of the loop: the prefix in hand matches, and the loop breaks
TakePrefix ==
  /\ pc = "scan"
  /\ scan # <<>>
  /\ PrefixMatches(inPath, Head(scan))
  /\ matched' = Head(scan)
  /\ pc' = "resolved"
  /\ UNCHANGED <<table, inPath, scan>>
  /\ UNCHANGED RestResolve

\* one turn of the loop: the prefix in hand does not match
SkipPrefix ==
  /\ pc = "scan"
  /\ scan # <<>>
  /\ ~PrefixMatches(inPath, Head(scan))
  /\ scan' = Tail(scan)
  /\ UNCHANGED <<pc, table, inPath, matched>>
  /\ UNCHANGED RestResolve

\* the loop ends with matchedPrefix still null
NoneMatched ==
  /\ pc = "scan"
  /\ scan = <<>>
  /\ pc' = "resolved"
  /\ UNCHANGED <<table, inPath, scan, matched>>
  /\ UNCHANGED RestResolve

NextResolve ==
  \/ SortKeys
  \/ TakePrefix
  \/ SkipPrefix
  \/ NoneMatched

SpecResolve == InitResolve /\ [][NextResolve]_vars

\* the routes of the table the path equals or extends by "/"
Candidates ==
  {p \in table : inPath = p \/ (Len(inPath) > Len(p) /\ SubSeq(inPath, 1, Len(p) + 1) = p \o "/")}

-----------------------------------------------------------------------------
(* The HTML branch of the rewriter applied to a document, and then to its  *)
(* own output.                                                             *)

\* the most fragments a document is made of
MaxFrags == 2

Fragments ==
  {"<a href=\"/a\">", "<img src='p.png'>", "<p style=\"x:url('/i')\">", "<a href='x>",
   "</body>", "<base href=\"https://store.steampowered.com/b/\">",
   "<a href=\"//store.steampowered.com/c\">", "it's"}

RECURSIVE Documents(_)
Documents(n) ==
  IF n = 0 THEN {""} ELSE Documents(n - 1) \cup {d \o f : d \in Documents(n - 1), f \in Fragments}

\* the prefix-path requests whose HTML response is rewritten
RewriteContexts ==
  {Ctx("prefix", "/steam", ParseURL("https://store.steampowered.com/app/index.html")),
   Ctx("prefix", "/steamcmd", ParseURL("https://api.steamcmd.net/"))}

RestRewrite ==
  <<request, ctx, visited, fetched, upstream, response, expect, table, inPath, scan, matched>>

InitRewrite ==
  /\ pc = "document"
  /\ doc \in Documents(MaxFrags)
  /\ ctx \in RewriteContexts
  /\ out1 = ""
  /\ out2 = ""
  /\ request = Req("GET", "/", "", "")
  /\ visited = {}
  /\ fetched = NoFetch
  /\ upstream = NoUpstream
  /\ response = NoResponse
  /\ expect = NoExpect
  /\ table = {}
  /\ inPath = ""
  /\ scan = <<>>
  /\ matched = NoPrefix

\* the HTML branch runs on the document
RewriteDocument ==
  /\ pc = "document"
  /\ out1' = RewriteHtml(doc, request.origin, ctx.matchedPrefix, ctx.targetUrl)
  /\ pc' = "once"
  /\ UNCHANGED <<doc, out2>>
  /\ UNCHANGED RestRewrite

\* the HTML branch runs on its own output
RewriteOutput ==
  /\ pc = "once"
  /\ out2' = RewriteHtml(out1, request.origin, ctx.matchedPrefix, ctx.targetUrl)
  /\ pc' = "twice"
  /\ UNCHANGED <<doc, out1>>
  /\ UNCHANGED RestRewrite

NextRewrite ==
  \/ RewriteDocument
  \/ RewriteOutput

SpecRewrite == InitRewrite /\ [][NextRewrite]_vars

\* how many times t occurs in s
Occurrences(s, t) == Cardinality({i \in 1..Len(s) : OccursAt(s, t, i)})

\* <proxy-origin><matched-prefix> of the request in hand
ProxyRoot == request.origin \o ctx.matchedPrefix

\* the places of s at which an attribute value or a url() reference starts that
\* is proxy-rooted
RootedAt(s) ==
  {i \in 1..Len(s) : OccursAt(s, "=\"" \o ProxyRoot \o "/", i)
                     \/ OccursAt(s, "url(" \o ProxyRoot \o "/", i)}

\* the proxy-rooted references of s, each from its opener to the quote or
\* parenthesis that ends it
RootedRefs(s) == {Sub(s, i, FirstOf(s, {"\"", ")"}, i + 5)) : i \in RootedAt(s)}

\* C7 as stated: the HTML branch run on its own output keeps every proxy-rooted
\* attribute value and url() reference as it is, and keeps the text of the patch
\* script the first run put in (the second run adds a copy of its own).
C7_SecondRunKeepsUrlsAndScript ==
  pc = "twice"
    => /\ \A r \in RootedRefs(out1) : Occurrences(out2, r) >= Occurrences(out1, r)
       /\ Occurrences(out1, FixScript(request.origin, ctx.matchedPrefix)) = 1
       /\ Occurrences(out2, FixScript(request.origin, ctx.matchedPrefix)) = 2

\* C9 as stated: an attribute whose value v is a bare relative path comes out as
\* <proxy-origin><matched-prefix><D>v, D the target path up to and including its
\* last "/", with one "/" between the prefix and the directory.
C9_RelativeUnderTargetDir ==
  (pc = "once" /\ StartsWith(doc, "<img src='p.png'>"))
    => StartsWith(out1, "<img src=\"" \o ProxyRoot \o DirOf(ctx.targetUrl.pathname)
                        \o "p.png\">")

=============================================================================
